---- MODULE Spec2Model ----
(***************************************************************************)
(* The eight Hugging Face task handlers of camel-huggingface               *)
(* (tasks/*.py).  Every file defines one module-level `pipe` and one       *)
(* function handle(inputs) with the shape                                  *)
(*     warmup check -> decode -> [seed] -> pipe(...) -> encode             *)
(* wrapped in  try: ... except Exception as e: <error payload>.            *)
(* One process serves one task; the host calls handle() once per request.  *)
(***************************************************************************)
EXTENDS Integers, Sequences, FiniteSets, TLC

VARIABLES
    task,                   \* which of the eight task files this process runs
    return_top_label_only,  \* zero_shot_classification.py:46, the templated flag
    nthreads,               \* how many host threads call handle() on this process
    pipe,                   \* the module-level pipeline object
    rng,                    \* torch's global generator state
    pc,                     \* per thread: position inside handle()
    inputs,                 \* per thread: the request being handled (index, 0 = none)
    result,                 \* per thread: what pipe(...) did (index, 0 = not called)
    e,                      \* per thread: the exception caught by `except Exception as e`
    outputs,                \* per thread: the Output being returned (sequence of parts)
    calls,                  \* per thread: pipe invocations made for the current request
    seeds,                  \* per thread: torch.manual_seed calls made for the current request
    hadError                \* some earlier request was answered with an error payload

vars == <<task, return_top_label_only, nthreads, pipe, rng, pc, inputs, result, e,
          outputs, calls, seeds, hadError>>

-----------------------------------------------------------------------------
(* Bounds of the model *)

NumThreads == 2     \* host threads in the concurrent specification
MaxLabels == 2      \* candidate labels in a zero-shot request
MaxDim == 2         \* rows and columns of an audio sample array

-----------------------------------------------------------------------------
(* Python values.  Floats are written in tenths: Flt(7) is 0.7. *)

None == [t |-> "none"]
Str(s) == [t |-> "str", s |-> s]
Flt(n) == [t |-> "float", n |-> n]
PyInt(n) == [t |-> "int", n |-> n]
List(xs) == [t |-> "list", xs |-> xs]
Dict(kvs) == [t |-> "dict", kvs |-> kvs]          \* kvs: sequence of <<key, value>>
Arr(shape, data) == [t |-> "ndarray", shape |-> shape, data |-> data]
Img(id) == [t |-> "image", id |-> id]

IsList(v) == v.t = "list"
IsDict(v) == v.t = "dict"

\* `k in d` and d[k] for a dict d
HasKey(d, k) == \E i \in 1..Len(d.kvs) : d.kvs[i][1] = k
GetKey(d, k) == d.kvs[CHOOSE i \in 1..Len(d.kvs) : d.kvs[i][1] = k][2]
\* d[k] = v on a dict d that has k: the key keeps its position
SetKey(d, k, v) ==
    Dict([i \in 1..Len(d.kvs) |-> IF d.kvs[i][1] = k THEN <<k, v>> ELSE d.kvs[i]])

\* Python truthiness of the values used here
Truthy(v) ==
    CASE v.t = "none" -> FALSE
      [] v.t = "list" -> Len(v.xs) > 0
      [] v.t = "dict" -> Len(v.kvs) > 0
      [] v.t = "str" -> v.s # ""
      [] v.t = "float" -> v.n # 0
      [] v.t = "int" -> v.n # 0
      [] OTHER -> TRUE

\* repr of a float given in tenths: 7 -> "0.7", 10 -> "1.0"
FloatRepr(n) == ToString(n \div 10) \o "." \o ToString(n % 10)

RECURSIVE JsonDumps(_)
RECURSIVE JoinItems(_, _)
RECURSIVE JoinPairs(_, _)

\* json.dumps with the default separators (", " and ": ")
JsonDumps(v) ==
    CASE v.t = "none" -> "null"
      [] v.t = "str" -> "\"" \o v.s \o "\""
      [] v.t = "float" -> FloatRepr(v.n)
      [] v.t = "int" -> ToString(v.n)
      [] v.t = "list" -> "[" \o JoinItems(v.xs, 1) \o "]"
      [] v.t = "dict" -> "{" \o JoinPairs(v.kvs, 1) \o "}"

JoinItems(xs, i) ==
    IF i > Len(xs) THEN ""
    ELSE (IF i > 1 THEN ", " ELSE "") \o JsonDumps(xs[i]) \o JoinItems(xs, i + 1)

JoinPairs(kvs, i) ==
    IF i > Len(kvs) THEN ""
    ELSE (IF i > 1 THEN ", " ELSE "") \o "\"" \o kvs[i][1] \o "\": "
         \o JsonDumps(kvs[i][2]) \o JoinPairs(kvs, i + 1)

\* json.dumps raises TypeError on objects it cannot serialize
RECURSIVE Serializable(_)
Serializable(v) ==
    CASE v.t \in {"ndarray", "image"} -> FALSE
      [] v.t = "list" -> \A i \in 1..Len(v.xs) : Serializable(v.xs[i])
      [] v.t = "dict" -> \A i \in 1..Len(v.kvs) : Serializable(v.kvs[i][2])
      [] OTHER -> TRUE

-----------------------------------------------------------------------------
(* Outcome of one stage of handle(): a value, or a raised exception *)

Ok(v) == [ok |-> TRUE, val |-> v]
Raise(cls, msg) == [ok |-> FALSE, exc |-> [cls |-> cls, msg |-> msg]]

\* `except Exception` catches every class used here but KeyboardInterrupt,
\* which derives from BaseException only
IsException(cls) == cls # "KeyboardInterrupt"

-----------------------------------------------------------------------------
(* The requests the host sends *)

Tasks == {"automatic_speech_recognition", "chat", "question_answering", "summarization",
          "text_classification", "text_to_image", "text_to_speech",
          "zero_shot_classification"}

\* [text, label1, ..., label(n-1)]; n = 0 is the empty array
ZeroShotDoc(n) ==
    List([i \in 1..n |-> IF i = 1 THEN Str("text") ELSE Str("label" \o ToString(i - 1))])

Docs ==
    << List(<<Flt(1), Flt(2)>>),
       List(<<Dict(<< <<"role", Str("user")>>, <<"content", Str("hi")>> >>)>>),
       Dict(<< <<"question", Str("q")>>, <<"context", Str("c")>> >>),
       Dict(<< <<"question", Str("q")>> >>) >>
    \o [n \in 1..(MaxLabels + 2) |-> ZeroShotDoc(n - 1)]

\* Requests[1] is the warmup probe; the others carry a "data" part
Requests ==
    << [size |-> 0, data |-> ""] >>
    \o [i \in 1..Len(Docs) |-> [size |-> 1, data |-> JsonDumps(Docs[i])]]
    \o << [size |-> 1, data |-> "The quick brown fox"] >>

\* json.loads: the document whose text this is, or JSONDecodeError
JsonLoads(s) ==
    IF \E i \in 1..Len(Docs) : JsonDumps(Docs[i]) = s
    THEN Ok(Docs[CHOOSE i \in 1..Len(Docs) : JsonDumps(Docs[i]) = s])
    ELSE Raise("JSONDecodeError", "Expecting value: line 1 column 1 (char 0)")

-----------------------------------------------------------------------------
(* decode: from input_str to what pipe() is called with *)

\* np.array(waveform_list, dtype=np.float32)
NpArrayFloat32(v) ==
    IF IsList(v) /\ \A i \in 1..Len(v.xs) : v.xs[i].t \in {"float", "int"}
    THEN Ok(Arr(<<Len(v.xs)>>, v.xs))
    ELSE IF IsList(v) /\ \A i \in 1..Len(v.xs) : v.xs[i].t = "str"
    THEN Raise("ValueError", "could not convert string to float: 'text'")
    ELSE Raise("TypeError",
               "float() argument must be a string or a real number, not 'dict'")

DecodeAsr(input_str) ==
    LET waveform_list == JsonLoads(input_str)
    IN  IF waveform_list.ok THEN NpArrayFloat32(waveform_list.val) ELSE waveform_list

DecodeChat(input_str) == JsonLoads(input_str)

\* input_data["question"], input_data["context"]
DecodeQa(input_str) ==
    LET input_data == JsonLoads(input_str)
    IN  IF ~input_data.ok THEN input_data
        ELSE IF ~IsDict(input_data.val)
        THEN Raise("TypeError", "list indices must be integers or slices, not str")
        ELSE IF ~HasKey(input_data.val, "question") THEN Raise("KeyError", "'question'")
        ELSE IF ~HasKey(input_data.val, "context") THEN Raise("KeyError", "'context'")
        ELSE Ok(input_data.val)

NoLabelsMessage == "At least one candidate label required for zero-shot"

\* text = input_data[0]; candidate_labels = input_data[1:]; the check comes after both
DecodeZeroShot(input_str) ==
    LET input_data == JsonLoads(input_str)
    IN  IF ~input_data.ok THEN input_data
        ELSE IF IsDict(input_data.val) THEN Raise("KeyError", "0")
        ELSE IF Len(input_data.val.xs) = 0
        THEN Raise("IndexError", "list index out of range")
        ELSE LET text == input_data.val.xs[1]
                 candidate_labels == Tail(input_data.val.xs)
             IN  IF candidate_labels = <<>>
                 THEN Raise("ValueError", NoLabelsMessage)
                 ELSE Ok(List(<<text, List(candidate_labels)>>))

Decode(tk, input_str) ==
    CASE tk = "automatic_speech_recognition" -> DecodeAsr(input_str)
      [] tk = "chat" -> DecodeChat(input_str)
      [] tk = "question_answering" -> DecodeQa(input_str)
      [] tk = "zero_shot_classification" -> DecodeZeroShot(input_str)
      [] OTHER -> Ok(Str(input_str))

-----------------------------------------------------------------------------
(* What the opaque pipeline can do when called: return a value or raise.     *)
(* The handlers fix nothing about it, so each task gets a table of outcomes. *)

PipeRaises ==
    << Raise("RuntimeError", "CUDA out of memory"),
       Raise("RuntimeError", ""),
       Raise("KeyboardInterrupt", "") >>

LabelA == Dict(<< <<"label", Str("A")>>, <<"score", Flt(9)>> >>)
LabelB == Dict(<< <<"label", Str("B")>>, <<"score", Flt(1)>> >>)

\* every array shape of one or two dimensions with sides 1..MaxDim, in a fixed order
AudioShapes ==
    [i \in 1..MaxDim |-> <<i>>]
    \o [i \in 1..(MaxDim * MaxDim) |-> <<((i - 1) \div MaxDim) + 1, ((i - 1) % MaxDim) + 1>>]

RECURSIVE Product(_)
Product(shape) == IF shape = <<>> THEN 1 ELSE Head(shape) * Product(Tail(shape))

\* an array of the given shape holding 0.1, 0.2, ... in row-major order
AudioOfShape(shape) == Arr(shape, [i \in 1..Product(shape) |-> Flt(i)])

\* n labels, label n first, with scores 0.n, ..., 0.1
ZeroShotResult(n) ==
    Dict(<< <<"sequence", Str("text")>>,
            <<"labels", List([i \in 1..n |-> Str("label" \o ToString(n + 1 - i))])>>,
            <<"scores", List([i \in 1..n |-> Flt(n + 1 - i)])>> >>)

PipeReturns(tk) ==
    CASE tk = "automatic_speech_recognition" ->
            << Ok(Dict(<< <<"text", Str("hello")>> >>)) >>
      [] tk = "chat" ->
            << Ok(List(<<Dict(<< <<"generated_text", Str("hi")>> >>)>>)) >>
      [] tk = "question_answering" ->
            << Ok(Dict(<< <<"score", Flt(9)>>, <<"answer", Str("a")>> >>)),
               Ok(Dict(<< <<"score", Flt(9)>> >>)) >>
      [] tk = "summarization" ->
            << Ok(List(<<Dict(<< <<"summary_text", Str("x")>> >>)>>)),
               Ok(List(<<>>)),
               Ok(Dict(<< <<"summary_text", Str("x")>> >>)),
               Ok(None),
               Ok(List(<<Dict(<< <<"generated_text", Str("y")>> >>)>>)),
               Ok(List(<<Str("x")>>)),
               Ok(List(<<Flt(5)>>)),
               Ok(List(<<None>>)) >>
      [] tk = "text_classification" ->
            << Ok(List(<<List(<<LabelA, LabelB>>)>>)),
               Ok(List(<<List(<<LabelA>>), List(<<LabelB>>)>>)),
               Ok(List(<<LabelA, LabelB>>)),
               Ok(List(<<>>)),
               Ok(List(<<List(<<>>)>>)) >>
      [] tk = "text_to_image" ->
            << Ok(List(<<Img("fox")>>)), Ok(List(<<>>)) >>
      [] tk = "text_to_speech" ->
            [i \in 1..Len(AudioShapes) |->
                Ok(Dict(<< <<"audio", AudioOfShape(AudioShapes[i])>>,
                           <<"sampling_rate", PyInt(16000)>> >>))]
            \o << Ok(Dict(<< <<"sampling_rate", PyInt(16000)>> >>)) >>
      [] tk = "zero_shot_classification" ->
            [i \in 1..(MaxLabels + 1) |-> Ok(ZeroShotResult(i - 1))]
            \o << Ok(Dict(<< <<"sequence", Str("text")>>,
                             <<"labels", List(<<Str("label2"), Str("label1")>>)>>,
                             <<"scores", List(<<Flt(7), Flt(3)>>)>> >>)),
                  Ok(Dict(<< <<"sequence", Str("text")>>,
                             <<"labels", List(<<Str("label2"), Str("label1")>>)>>,
                             <<"scores", List(<<Flt(3), Flt(7)>>)>> >>)) >>

Outcomes(tk) == PipeReturns(tk) \o PipeRaises

-----------------------------------------------------------------------------
(* The response envelope: djl_python.Output as the sequence of its parts *)

Output == <<>>
Add(out, value, type, key) == Append(out, [name |-> key, body |-> value, type |-> type])

\* the except block's payload: json.dumps({"error": str(e)})
ErrorJson(exc) == JsonDumps(Dict(<< <<"error", Str(exc.msg)>> >>))

-----------------------------------------------------------------------------
(* encode: from the pipeline's result to the Output that is returned *)

\* outputs.add(json.dumps(result), "data")
EncodeJson(res) ==
    IF Serializable(res)
    THEN Ok(Add(Output, JsonDumps(res), "str", "data"))
    ELSE Raise("TypeError", "Object of type ndarray is not JSON serializable")

\* Python's `key in x` for a str key.  On a str x it is a substring test, which for
\* the strings of this model is true exactly when they are equal.
Contains(x, key) ==
    CASE x.t = "dict" -> Ok(HasKey(x, key))
      [] x.t = "list" -> Ok(\E i \in 1..Len(x.xs) : x.xs[i] = Str(key))
      [] x.t = "str" -> Ok(x.s = key)
      [] x.t = "none" -> Raise("TypeError", "argument of type 'NoneType' is not iterable")
      [] OTHER -> Raise("TypeError", "argument of type '" \o x.t \o "' is not iterable")

\* x[key] for a str key
Subscript(x, key) ==
    CASE x.t = "dict" ->
            IF HasKey(x, key) THEN Ok(GetKey(x, key)) ELSE Raise("KeyError", "'" \o key \o "'")
      [] x.t = "list" -> Raise("TypeError", "list indices must be integers or slices, not str")
      [] x.t = "str" -> Raise("TypeError", "string indices must be integers, not 'str'")
      [] OTHER -> Raise("TypeError", "object is not subscriptable")

\* answer = result["answer"] if "answer" in result else ''
EncodeQa(res) ==
    LET has == Contains(res, "answer")
    IN  IF ~has.ok THEN has
        ELSE IF ~has.val THEN Ok(Add(Output, "", "str", "data"))
        ELSE LET answer == Subscript(res, "answer")
             IN  IF answer.ok THEN Ok(Add(Output, answer.val.s, "str", "data")) ELSE answer

\* summary = result[0]['summary_text'] if result and isinstance(result, list)
\*           and len(result) > 0 and 'summary_text' in result[0] else ''
EncodeSummarization(res) ==
    IF ~(Truthy(res) /\ IsList(res) /\ Len(res.xs) > 0)
    THEN Ok(Add(Output, "", "str", "data"))
    ELSE LET has == Contains(res.xs[1], "summary_text")
         IN  IF ~has.ok THEN has
             ELSE IF ~has.val THEN Ok(Add(Output, "", "str", "data"))
             ELSE LET summary == Subscript(res.xs[1], "summary_text")
                  IN  IF summary.ok
                      THEN Ok(Add(Output, summary.val.s, "str", "data"))
                      ELSE summary

\* an encoder that never unwraps the nested list
EncodeTextClassificationNested(res) == EncodeJson(res)

\* if result and isinstance(result[0], list): result = result[0]
EncodeTextClassification(res) ==
    IF Truthy(res) /\ IsList(res.xs[1])
    THEN EncodeJson(res.xs[1])
    ELSE EncodeJson(res)

\* image = pipe(input_str).images[0]; image.save(buf, format="PNG")
EncodeImage(images) ==
    IF Len(images.xs) = 0 THEN Raise("IndexError", "list index out of range")
    ELSE Ok(Add(Output, "PNG:" \o images.xs[1].id, "bytes", "data"))

\* np.squeeze: drop every axis of length one
Squeeze(a) == Arr(SelectSeq(a.shape, LAMBDA d : d # 1), a.data)

\* ndarray.tolist(): nested lists following the shape; a 0-d array gives a scalar
RECURSIVE NestedList(_, _)
NestedList(shape, data) ==
    IF shape = <<>> THEN data[1]
    ELSE LET stride == Product(Tail(shape))
         IN  List([i \in 1..Head(shape) |->
                     NestedList(Tail(shape), SubSeq(data, (i - 1) * stride + 1, i * stride))])

ToList(a) == NestedList(a.shape, a.data)

\* result['audio'] = np.squeeze(result['audio']).tolist(); json.dumps(result)
EncodeSpeech(res) ==
    LET audio == Subscript(res, "audio")
    IN  IF ~audio.ok THEN audio
        ELSE EncodeJson(SetKey(res, "audio", ToList(Squeeze(audio.val))))

\* an encoder that JSON-encodes the top label too
EncodeZeroShotQuoted(flag, res) ==
    IF flag /\ HasKey(res, "labels") /\ Len(GetKey(res, "labels").xs) > 0
    THEN Ok(Add(Output, JsonDumps(GetKey(res, "labels").xs[1]), "str", "data"))
    ELSE EncodeJson(res)

\* top_label = result['labels'][0] when the flag is set, else json.dumps(result)
EncodeZeroShot(flag, res) ==
    IF flag
    THEN LET labels == Subscript(res, "labels")
         IN  IF ~labels.ok THEN labels
             ELSE IF Len(labels.val.xs) = 0
             THEN Raise("IndexError", "list index out of range")
             ELSE Ok(Add(Output, labels.val.xs[1].s, "str", "data"))
    ELSE EncodeJson(res)

Encode(tk, flag, res) ==
    CASE tk = "question_answering" -> EncodeQa(res)
      [] tk = "summarization" -> EncodeSummarization(res)
      [] tk = "text_classification" -> EncodeTextClassification(res)
      [] tk = "text_to_image" -> EncodeImage(res)
      [] tk = "text_to_speech" -> EncodeSpeech(res)
      [] tk = "zero_shot_classification" -> EncodeZeroShot(flag, res)
      [] OTHER -> EncodeJson(res)

-----------------------------------------------------------------------------
(* handle(): the order of the stages after the warmup check, per task file *)

Program(tk) ==
    CASE tk = "automatic_speech_recognition" -> <<"decode", "invoke", "encode">>
      [] tk \in {"chat", "zero_shot_classification"} -> <<"decode", "seed", "invoke", "encode">>
      [] tk = "question_answering" -> <<"seed", "decode", "invoke", "encode">>
      [] OTHER -> <<"seed", "invoke", "encode">>

\* the stage that follows `stage` in the task's handle()
After(tk, stage) ==
    LET prog == Program(tk)
        i == CHOOSE j \in 1..Len(prog) : prog[j] = stage
    IN  prog[i + 1]

Threads == 1..NumThreads
NoException == [cls |-> "", msg |-> ""]

\* a warmup test that no request passes
IsWarmupNever(req) == req.size < 0

\* if inputs.content.size() == 0
IsWarmup(req) == req.size = 0

\* an except block that reports the message in a part of its own as well
ErrorOutputTwoParts(exc) ==
    Add(Add(Output, ErrorJson(exc), "str", "data"), exc.msg, "str", "error")

\* the Output built by the except block
ErrorOutput(exc) == Add(Output, ErrorJson(exc), "str", "data")

\* an except block that also drops the loaded pipeline
ExceptDropsPipe(t, exc) ==
    /\ IF IsException(exc.cls)
       THEN /\ e' = [e EXCEPT ![t] = exc]
            /\ outputs' = [outputs EXCEPT ![t] = Add(Output, ErrorJson(exc), "str", "data")]
            /\ pc' = [pc EXCEPT ![t] = "done"]
       ELSE /\ pc' = [pc EXCEPT ![t] = "escaped"]
            /\ UNCHANGED <<e, outputs>>
    /\ pipe' = "None"

\* An exception raised in the try block of thread t's handle(): `except Exception`
\* builds the error payload and returns it; any other class leaves handle().
Except(t, exc) ==
    /\ IF IsException(exc.cls)
       THEN /\ e' = [e EXCEPT ![t] = exc]
            /\ outputs' = [outputs EXCEPT ![t] = ErrorOutput(exc)]
            /\ pc' = [pc EXCEPT ![t] = "done"]
       ELSE /\ pc' = [pc EXCEPT ![t] = "escaped"]
            /\ UNCHANGED <<e, outputs>>
    /\ pipe' = pipe

\* the next statement of the try block is reached
Continue(t, stage) ==
    /\ pc' = [pc EXCEPT ![t] = stage]
    /\ UNCHANGED <<e, outputs, pipe>>

config == <<task, return_top_label_only, nthreads>>

TypeOK ==
    /\ task \in Tasks
    /\ return_top_label_only \in BOOLEAN
    /\ nthreads \in Threads
    /\ pipe \in {"pipeline", "None"}
    /\ rng \in {"default", "seeded", "advanced"}
    /\ pc \in [Threads -> {"idle", "handle", "decode", "seed", "invoke", "encode",
                           "done", "escaped"}]
    /\ inputs \in [Threads -> 0..Len(Requests)]
    /\ result \in [Threads -> 0..Len(Outcomes(task))]
    /\ calls \in [Threads -> Nat]
    /\ seeds \in [Threads -> Nat]
    /\ hadError \in BOOLEAN

InitWith(n) ==
    /\ task \in Tasks
    /\ return_top_label_only \in
          (IF task = "zero_shot_classification" THEN BOOLEAN ELSE {FALSE})
    /\ nthreads = n
    /\ pipe = "pipeline"
    /\ rng = "default"
    /\ pc = [t \in Threads |-> "idle"]
    /\ inputs = [t \in Threads |-> 0]
    /\ result = [t \in Threads |-> 0]
    /\ e = [t \in Threads |-> NoException]
    /\ outputs = [t \in Threads |-> Output]
    /\ calls = [t \in Threads |-> 0]
    /\ seeds = [t \in Threads |-> 0]
    /\ hadError = FALSE

\* the host calls handle() one request at a time
Init == InitWith(1)

\* the host calls handle() from NumThreads threads
InitConcurrent == InitWith(NumThreads)

\* The host hands a request to thread t, which enters handle().
Receive(t) ==
    /\ t <= nthreads
    /\ pc[t] = "idle"
    /\ \E i \in 1..Len(Requests) : inputs' = [inputs EXCEPT ![t] = i]
    /\ pc' = [pc EXCEPT ![t] = "handle"]
    /\ UNCHANGED <<config, pipe, rng, result, e, outputs, calls, seeds, hadError>>

\* The warmup check: an empty request returns Output() at once; any other request
\* goes on to input_str = inputs.get_as_string("data") and the first stage.
Check(t) ==
    /\ pc[t] = "handle"
    /\ IF IsWarmup(Requests[inputs[t]])
       THEN /\ outputs' = [outputs EXCEPT ![t] = Output]
            /\ pc' = [pc EXCEPT ![t] = "done"]
       ELSE /\ pc' = [pc EXCEPT ![t] = Program(task)[1]]
            /\ UNCHANGED outputs
    /\ UNCHANGED <<config, pipe, rng, inputs, result, e, calls, seeds, hadError>>

\* json.loads and the task's checks on the input
DecodeStep(t) ==
    /\ pc[t] = "decode"
    /\ LET input_str == Requests[inputs[t]].data
           decoded == Decode(task, input_str)
       IN  IF decoded.ok THEN Continue(t, After(task, "decode")) ELSE Except(t, decoded.exc)
    /\ UNCHANGED <<config, rng, inputs, result, calls, seeds, hadError>>

\* torch.manual_seed(42)
Seed(t) ==
    /\ pc[t] = "seed"
    /\ rng' = "seeded"
    /\ seeds' = [seeds EXCEPT ![t] = @ + 1]
    /\ Continue(t, After(task, "seed"))
    /\ UNCHANGED <<config, inputs, result, calls, hadError>>

\* what calling the global `pipe` does: outcome o of the task's table, or a
\* TypeError when `pipe` is not a pipeline
CallPipe(o) ==
    IF pipe = "pipeline" THEN Outcomes(task)[o]
    ELSE Raise("TypeError", "'NoneType' object is not callable")

\* result = pipe(...)
Invoke(t) ==
    /\ pc[t] = "invoke"
    /\ \E o \in 1..Len(Outcomes(task)) :
          /\ result' = [result EXCEPT ![t] = o]
          /\ IF CallPipe(o).ok
             THEN Continue(t, After(task, "invoke"))
             ELSE Except(t, CallPipe(o).exc)
    /\ calls' = [calls EXCEPT ![t] = @ + 1]
    /\ rng' = "advanced"
    /\ UNCHANGED <<config, inputs, seeds, hadError>>

\* the statements from the pipe call's return to `return outputs`
EncodeStep(t) ==
    /\ pc[t] = "encode"
    /\ LET encoded == Encode(task, return_top_label_only, Outcomes(task)[result[t]].val)
       IN  IF encoded.ok
           THEN /\ outputs' = [outputs EXCEPT ![t] = encoded.val]
                /\ pc' = [pc EXCEPT ![t] = "done"]
                /\ UNCHANGED <<e, pipe>>
           ELSE Except(t, encoded.exc)
    /\ UNCHANGED <<config, rng, inputs, result, calls, seeds, hadError>>

\* handle() has returned (or raised): the host takes the response and the frame's
\* locals are gone.
Return(t) ==
    /\ pc[t] \in {"done", "escaped"}
    /\ hadError' = (hadError \/ e[t] # NoException)
    /\ pc' = [pc EXCEPT ![t] = "idle"]
    /\ inputs' = [inputs EXCEPT ![t] = 0]
    /\ result' = [result EXCEPT ![t] = 0]
    /\ e' = [e EXCEPT ![t] = NoException]
    /\ outputs' = [outputs EXCEPT ![t] = Output]
    /\ calls' = [calls EXCEPT ![t] = 0]
    /\ seeds' = [seeds EXCEPT ![t] = 0]
    /\ UNCHANGED <<config, pipe, rng>>

Next ==
    \E t \in Threads :
        \/ Receive(t)
        \/ Check(t)
        \/ DecodeStep(t)
        \/ Seed(t)
        \/ Invoke(t)
        \/ EncodeStep(t)
        \/ Return(t)

Spec == Init /\ [][Next]_vars
SpecConcurrent == InitConcurrent /\ [][Next]_vars

-----------------------------------------------------------------------------
(* Properties *)

Request(t) == Requests[inputs[t]]
Outcome(t) == Outcomes(task)[result[t]]

\* handle() of thread t has returned its Output for a request that is not a warmup
Answered(t) == pc[t] = "done" /\ inputs[t] # 0 /\ Request(t).size # 0

\* the pipeline was called for thread t's request and returned a value
PipeReturned(t) == result[t] # 0 /\ Outcome(t).ok

\* the Output holds exactly one part, the string `body` under "data"
OnlyData(out, body) == out = << [name |-> "data", body |-> body, type |-> "str"] >>

\* the text {"error": "<msg>"}, written out
ErrorText(msg) == "{\"error\": \"" \o msg \o "\"}"

\* every exception message a stage of some handler can produce
Messages ==
    {PipeRaises[i].exc.msg : i \in 1..Len(PipeRaises)}
    \cup UNION {{Decode(tk, Requests[i].data).exc.msg :
                    i \in {j \in 1..Len(Requests) : ~Decode(tk, Requests[j].data).ok}} :
                tk \in Tasks}
    \cup UNION {UNION {{Encode(tk, f, PipeReturns(tk)[i].val).exc.msg :
                          i \in {j \in 1..Len(PipeReturns(tk)) :
                                    ~Encode(tk, f, PipeReturns(tk)[j].val).ok}} :
                       f \in BOOLEAN} :
                tk \in Tasks}

IsErrorPayload(body) == \E m \in Messages : body = ErrorText(m)

\* C1: in every handler a request of size 0 is answered with an Output that has no
\* parts, and while it is handled the pipeline is not called, the seed is not set
\* and no exception is caught.
C1_WarmupReturnsEmpty ==
    \A t \in Threads :
        (inputs[t] # 0 /\ Request(t).size = 0) =>
            /\ pc[t] \in {"handle", "done"}
            /\ calls[t] = 0
            /\ seeds[t] = 0
            /\ result[t] = 0
            /\ e[t] = NoException
            /\ pc[t] = "done" => outputs[t] = <<>>

C1_Witness ==
    \E t \in Threads :
        pc[t] = "done" /\ inputs[t] # 0 /\ Request(t).size = 0 /\ task = "text_to_image"

\* C2: whenever the pipeline raised for a non-empty request, handle() returns, and
\* the "data" part it returns is a JSON object {"error": m} with m a non-empty string.
C2_PipeErrorHasNonEmptyMessage ==
    \A t \in Threads :
        (result[t] # 0 /\ ~Outcome(t).ok) =>
            /\ pc[t] = "done"
            /\ \E m \in Messages : m # "" /\ OnlyData(outputs[t], ErrorText(m))

\* C3: in the zero-shot handler a request whose JSON array has fewer than two
\* elements is answered with the error payload carrying the missing-labels
\* validation message, and the pipeline is not called.
C3_FewerThanTwoElementsIsValidationError ==
    \A t \in Threads :
        (/\ task = "zero_shot_classification"
         /\ Answered(t)
         /\ JsonLoads(Request(t).data).ok
         /\ IsList(JsonLoads(Request(t).data).val)
         /\ Len(JsonLoads(Request(t).data).val.xs) < 2) =>
            /\ OnlyData(outputs[t], ErrorText(NoLabelsMessage))
            /\ calls[t] = 0

\* the samples of an array as one flat list, in row-major order
Flattened(a) == List(a.data)

\* C4: in the text-to-speech handler, when the result's "audio" is an array of two
\* or more dimensions, the "audio" field of the returned JSON is the flat list of
\* all its samples in row-major order.
C4_AudioIsFlattened ==
    \A t \in Threads :
        (/\ task = "text_to_speech"
         /\ Answered(t)
         /\ PipeReturned(t)
         /\ HasKey(Outcome(t).val, "audio")
         /\ Len(GetKey(Outcome(t).val, "audio").shape) >= 2) =>
            OnlyData(outputs[t],
                     JsonDumps(SetKey(Outcome(t).val, "audio",
                                      Flattened(GetKey(Outcome(t).val, "audio")))))

\* the labels of a zero-shot result come with scores in descending order
Descending(res) ==
    /\ HasKey(res, "labels") /\ HasKey(res, "scores")
    /\ Len(GetKey(res, "labels").xs) = Len(GetKey(res, "scores").xs)
    /\ \A i, j \in 1..Len(GetKey(res, "scores").xs) :
          i < j => GetKey(res, "scores").xs[i].n >= GetKey(res, "scores").xs[j].n

\* the label whose score no other score exceeds
HighestScoring(res) ==
    LET scores == GetKey(res, "scores").xs
        best == CHOOSE i \in 1..Len(scores) : \A j \in 1..Len(scores) : scores[i].n >= scores[j].n
    IN  GetKey(res, "labels").xs[best].s

\* C5: in the zero-shot handler, for a valid request and a result that lists at
\* least one label, in descending score order: with return_top_label_only the
\* "data" part is the highest-scoring label as a plain string; without it the
\* "data" part is the JSON text of the whole result.
C5_TopLabelOrFullResult ==
    \A t \in Threads :
        (/\ task = "zero_shot_classification"
         /\ Answered(t)
         /\ Decode(task, Request(t).data).ok
         /\ PipeReturned(t)
         /\ Descending(Outcome(t).val)
         /\ Len(GetKey(Outcome(t).val, "labels").xs) > 0) =>
            IF return_top_label_only
            THEN OnlyData(outputs[t], HighestScoring(Outcome(t).val))
            ELSE OnlyData(outputs[t], JsonDumps(Outcome(t).val))

C5_Witness ==
    \E t \in Threads :
        /\ task = "zero_shot_classification"
        /\ return_top_label_only
        /\ Answered(t)
        /\ Request(t).data = "[\"text\", \"label1\", \"label2\"]"
        /\ PipeReturned(t)
        /\ GetKey(Outcome(t).val, "scores") = List(<<Flt(7), Flt(3)>>)
        /\ OnlyData(outputs[t], "label2")

\* C6: in the summarization handler the "data" part is the first element's
\* summary_text when the result is a non-empty list whose first element has that
\* field; for every other result it is the empty string and no error is reported.
C6_SummaryOrEmptyString ==
    \A t \in Threads :
        (task = "summarization" /\ Answered(t) /\ PipeReturned(t)) =>
            LET res == Outcome(t).val
            IN  IF /\ IsList(res) /\ Len(res.xs) > 0
                   /\ IsDict(res.xs[1]) /\ HasKey(res.xs[1], "summary_text")
                THEN OnlyData(outputs[t], GetKey(res.xs[1], "summary_text").s)
                ELSE OnlyData(outputs[t], "") /\ e[t] = NoException

\* C7: in the text-classification handler the "data" part is the JSON text of the
\* first inner list when the result is a list of lists, and the JSON text of the
\* result itself when the result is a flat list (the empty list included).
C7_FirstInnerListOrUnchanged ==
    \A t \in Threads :
        (task = "text_classification" /\ Answered(t) /\ PipeReturned(t)
            /\ IsList(Outcome(t).val)) =>
            LET res == Outcome(t).val
            IN  /\ (Len(res.xs) > 0 /\ \A i \in 1..Len(res.xs) : IsList(res.xs[i]))
                      => OnlyData(outputs[t], JsonDumps(res.xs[1]))
                /\ (\A i \in 1..Len(res.xs) : ~IsList(res.xs[i]))
                      => OnlyData(outputs[t], JsonDumps(res))

C7_Witness ==
    \E t \in Threads :
        /\ task = "text_classification"
        /\ Answered(t)
        /\ PipeReturned(t)
        /\ Outcome(t).val = List(<<List(<<LabelA, LabelB>>)>>)
        /\ OnlyData(outputs[t],
                    "[{\"label\": \"A\", \"score\": 0.9}, {\"label\": \"B\", \"score\": 0.1}]")

\* C8: whatever stage failed, the Output returned for a non-empty request holds
\* exactly one part, named "data": the error payload when an exception was caught,
\* and otherwise a payload that is not an error payload.
C8_ExactlyOneDataPart ==
    \A t \in Threads :
        Answered(t) =>
            /\ Len(outputs[t]) = 1
            /\ outputs[t][1].name = "data"
            /\ e[t] # NoException => OnlyData(outputs[t], ErrorText(e[t].msg))
            /\ e[t] = NoException => ~IsErrorPayload(outputs[t][1].body)

\* the failure came from the encode stage: the pipeline had returned a value
C8_Witness ==
    \E t \in Threads :
        Answered(t) /\ PipeReturned(t) /\ e[t] # NoException /\ task = "text_to_speech"

\* thread t has set the seed for its request and has not yet called the pipeline
InWindow(t) == seeds[t] > 0 /\ calls[t] = 0 /\ pc[t] \in {"decode", "invoke"}

\* C9: seed-setting and the pipeline call that follows form a critical section:
\* while one request is between the two, no other request sets the seed or calls
\* the pipeline (so no two requests are between the two at once).
C9_SeedInvokeCriticalSection ==
    \A t, u \in Threads : t # u => ~(InWindow(t) /\ InWindow(u))

\* C10: a request calls the pipeline at most once, and not at all when its decode
\* fails; and after some request has been answered with an error payload, a warmup
\* request still gets the empty Output and a valid request whose pipeline call
\* returns an encodable result still gets its success payload.
C10_NoRetryAndErrorsLeaveNoTrace ==
    \A t \in Threads :
        /\ calls[t] <= 1
        /\ (inputs[t] # 0 /\ Request(t).size # 0 /\ ~Decode(task, Request(t).data).ok)
              => calls[t] = 0
        /\ (hadError /\ pc[t] = "done" /\ Request(t).size = 0)
              => outputs[t] = <<>> /\ calls[t] = 0 /\ e[t] = NoException
        /\ (/\ hadError
            /\ Answered(t)
            /\ Decode(task, Request(t).data).ok
            /\ PipeReturned(t)
            /\ Encode(task, return_top_label_only, Outcome(t).val).ok)
              => /\ calls[t] = 1
                 /\ e[t] = NoException
                 /\ Len(outputs[t]) = 1
                 /\ ~IsErrorPayload(outputs[t][1].body)

C10_Witness ==
    \E t \in Threads :
        /\ hadError
        /\ Answered(t)
        /\ task = "question_answering"
        /\ PipeReturned(t)
        /\ OnlyData(outputs[t], "a")

====
